---- MODULE Spec2Model ----
(***************************************************************************)
(* Model of js/address-search.js: the base-station coverage button, the    *)
(* ring cycle timer, the station tour loop and the station load.           *)
(*                                                                         *)
(* One action is one macrotask of the browser's event loop: an event       *)
(* handler or timer callback together with the promise continuations       *)
(* (microtasks) it makes runnable, which run before the next macrotask.    *)
(*                                                                         *)
(* The functions of the script are operators over a record g of the        *)
(* script's globals, so that a handler is the composition of the calls it  *)
(* makes, in the order of the source.                                      *)
(***************************************************************************)
EXTENDS Integers, Sequences, FiniteSets, TLC

VARIABLES
    coverageState,   \* let coverageState                       (line 163)
    stations,        \* const stations = []                     (line 159)
    stationOrder,    \* let stationOrder = []                   (line 183)
    ringLayerGroup,  \* shapes held by ringLayerGroup           (line 142)
    ringInterval,    \* let ringInterval = null                 (line 179)
    intervals,       \* live setInterval timers: handle -> closure state
    simRunning,      \* let simRunning = false                  (line 180)
    loops,           \* frames of the calls of zoomStationsLoop that have
                     \* not returned, oldest first
    listeners,       \* 'moveend' listeners registered by flyToAsync, in
                     \* order, each named by the position of its frame
    load,            \* progress of loadStations(): "pending", "done", "failed"
    hist,            \* history: coverageState before each of the last clicks
    ev,              \* history: the last macrotask and the calls it made
    measuring,       \* let measuring = false                   (line 366)
    measurePoints,   \* let measurePoints = []                  (line 367)
    measureLine,     \* let measureLine = null: <<>>, or <<the polyline>>
                     \*                                         (line 368)
    measureMarkers,  \* let measureMarkers = []                 (line 369)
    mapLayers,       \* the layers the measuring tool has on the map
    popup            \* the popup open on the map: <<>>, or <<the popup>>

vars == <<coverageState, stations, stationOrder, ringLayerGroup, ringInterval,
          intervals, simRunning, loops, listeners, load, hist, ev,
          measuring, measurePoints, measureLine, measureMarkers, mapLayers,
          popup>>

-----------------------------------------------------------------------------
(* Bounds of the model *)

\* the measuring tool takes at most this many points in one measurement
MaxPoints == 4
\* at most this many invocations of zoomStationsLoop alive at once
MaxLoops == 2
\* a tour loop's idx is not incremented beyond this
MaxIdx == 2
\* an interval timer fires at most this many times
MaxTicks == 8
\* longest station list drawn by the specification of the pure functions
MaxStations == 3

-----------------------------------------------------------------------------
(* Program constants *)

null == 0                                       \* ringInterval = null
coverageSteps == <<0, 5, 10, 15, 20, 25, 30, 40>>   \* km, JS indices 0..7
ZOOM_BASE == 15
ZOOM_CLOSE == 11
RING_STEP_MS == 500
FLY_DUR_BASE == 20
FLY_DUR_CLOSE == 25
PAUSE_CLOSE_MS == 800
PAUSE_BETWEEN_MS == 600
POLL_MS == 1000

\* coverageSteps[i] with JS (0-based) indexing; out of range is undefined
undefined == "undefined"
StepKm(i) == IF i \in 0..(Len(coverageSteps) - 1) THEN coverageSteps[i + 1]
             ELSE undefined

-----------------------------------------------------------------------------
(* The globals as a record.  fly and draw log the calls one macrotask makes *)
(* to map.flyTo and to drawSingleRing, removed counts the shapes that its  *)
(* calls of ringLayerGroup.clearLayers() take off the map, cancelled the    *)
(* live timers that its calls of clearInterval cancel.                     *)

Globals == [coverageState |-> coverageState, stations |-> stations,
            stationOrder |-> stationOrder, ringLayerGroup |-> ringLayerGroup,
            ringInterval |-> ringInterval, intervals |-> intervals,
            simRunning |-> simRunning, loops |-> loops,
            listeners |-> listeners, fly |-> <<>>, draw |-> <<>>,
            removed |-> 0, cancelled |-> 0]

\* the frame of a call of zoomStationsLoop that has returned
Returned == [pc |-> "returned", idx |-> 0, sIndex |-> -1, target |-> <<>>,
             ms |-> 0]

Alive(ls) == {l \in DOMAIN ls : ls[l].pc # "returned"}
FlyPcs == {"fly1", "fly2", "fly3"}
SleepPcs == {"poll", "pauseClose", "pauseBetween"}

-----------------------------------------------------------------------------
(* rebuildStationOrder: indices sorted by descending latitude.             *)
(* Array.prototype.sort is stable; the comparator is b.lat - a.lat.        *)

\* variant: the comparator with its operands swapped (ascending latitude)
compare_ascending(a, b) == a.lat - b.lat

compare(a, b) == b.lat - a.lat

RECURSIVE InsertSorted(_, _)
\* insert o behind every element that does not have to come after it
InsertSorted(sorted, o) ==
    IF sorted = <<>> THEN <<o>>
    ELSE IF compare(Head(sorted), o) <= 0
         THEN <<Head(sorted)>> \o InsertSorted(Tail(sorted), o)
         ELSE <<o>> \o sorted

RECURSIVE SortDesc(_)
SortDesc(objs) ==
    IF objs = <<>> THEN <<>>
    ELSE InsertSorted(SortDesc(SubSeq(objs, 1, Len(objs) - 1)), objs[Len(objs)])

rebuildStationOrder(g) ==
    LET objs == [k \in 1..Len(g.stations) |->
                    [i |-> k - 1, lat |-> g.stations[k].lat]]
        sorted == SortDesc(objs)
    IN  [g EXCEPT !.stationOrder = [k \in 1..Len(sorted) |-> sorted[k].i]]

-----------------------------------------------------------------------------
(* Ring layer *)

clearCoverage(g) ==
    [g EXCEPT !.ringLayerGroup = <<>>,
              !.removed = @ + Len(g.ringLayerGroup)]

Circle(site, km) == [lat |-> site.lat, lon |-> site.lon, radius |-> km * 1000]

\* variant: drawSingleRing without its call of clearCoverage
drawSingleRing_noClear(g, km) ==
    LET c == [g EXCEPT !.draw = Append(g.draw, km)]
    IN  IF Len(c.stations) = 0 THEN c
        ELSE [c EXCEPT !.ringLayerGroup =
                 c.ringLayerGroup \o
                 [k \in 1..Len(c.stations) |-> Circle(c.stations[k], km)]]

drawSingleRing(g, km) ==
    LET c == [clearCoverage(g) EXCEPT !.draw = Append(g.draw, km)]
    IN  IF Len(c.stations) = 0 THEN c
        ELSE [c EXCEPT !.ringLayerGroup =
                 c.ringLayerGroup \o
                 [k \in 1..Len(c.stations) |-> Circle(c.stations[k], km)]]

-----------------------------------------------------------------------------
(* Tour loop: zoomStationsLoop is an async function; a frame records the   *)
(* await it is suspended at (pc) and its locals idx, sIndex and target.    *)

\* sleep(ms): the frame waits for a setTimeout of ms milliseconds
sleep(g, l, pc, idx, ms) ==
    [g EXCEPT !.loops[l] = [pc |-> pc, idx |-> idx, sIndex |-> @.sIndex,
                            target |-> @.target, ms |-> ms]]

\* flyToAsync: register the one-shot 'moveend' listener, then call map.flyTo
flyToAsync(g, l, pc, latlng, zoom, durationSec) ==
    [g EXCEPT !.listeners = Append(@, l),
              !.fly = Append(@, [latlng |-> latlng, zoom |-> zoom,
                                 duration |-> durationSec]),
              !.loops[l].pc = pc]

return(g, l) == [g EXCEPT !.loops[l] = Returned]

\* variant: the station taken one place further along the order
loopBody_offByOne(g, l, idx) ==
    IF Len(g.stations) = 0 \/ Len(g.stationOrder) = 0
    THEN sleep([g EXCEPT !.loops[l] = Returned], l, "poll", idx, POLL_MS)
    ELSE LET sIndex == g.stationOrder[((idx + 1) % Len(g.stationOrder)) + 1]
             s == g.stations[sIndex + 1]
             target == <<s.lat, s.lon>>
             f == [g EXCEPT !.loops[l] =
                      [pc |-> "body", idx |-> idx, sIndex |-> sIndex,
                       target |-> target, ms |-> 0]]
         IN  flyToAsync(f, l, "fly1", target, ZOOM_BASE, FLY_DUR_BASE)

\* variant: the poll of an empty station list sleeps the between-stations
\* pause instead of the poll interval
loopBody_pollShort(g, l, idx) ==
    IF Len(g.stations) = 0 \/ Len(g.stationOrder) = 0
    THEN sleep([g EXCEPT !.loops[l] = Returned], l, "poll", idx,
               PAUSE_BETWEEN_MS)
    ELSE LET sIndex == g.stationOrder[(idx % Len(g.stationOrder)) + 1]
             s == g.stations[sIndex + 1]
             target == <<s.lat, s.lon>>
             f == [g EXCEPT !.loops[l] =
                      [pc |-> "body", idx |-> idx, sIndex |-> sIndex,
                       target |-> target, ms |-> 0]]
         IN  flyToAsync(f, l, "fly1", target, ZOOM_BASE, FLY_DUR_BASE)

\* the body of the while loop up to its first await
loopBody(g, l, idx) ==
    IF Len(g.stations) = 0 \/ Len(g.stationOrder) = 0
    THEN sleep([g EXCEPT !.loops[l] = Returned], l, "poll", idx, POLL_MS)
    ELSE LET sIndex == g.stationOrder[(idx % Len(g.stationOrder)) + 1]
             s == g.stations[sIndex + 1]
             target == <<s.lat, s.lon>>
             f == [g EXCEPT !.loops[l] =
                      [pc |-> "body", idx |-> idx, sIndex |-> sIndex,
                       target |-> target, ms |-> 0]]
         IN  flyToAsync(f, l, "fly1", target, ZOOM_BASE, FLY_DUR_BASE)

\* variant: while (true), simRunning is not tested at the head of the loop
loopHead_noTest(g, l, idx) == loopBody(g, l, idx)

\* the test of `while (simRunning)`, then the body
loopHead(g, l, idx) ==
    IF ~g.simRunning THEN return(g, l) ELSE loopBody(g, l, idx)

\* the frame of a new call
newFrame(g) == [g EXCEPT !.loops = Append(@, Returned)]

\* variant: the loop written do-while, its body entered before the first test
zoomStationsLoop_doWhile(g) ==
    LET o == IF Len(g.stationOrder) = 0 THEN rebuildStationOrder(g) ELSE g
        n == newFrame(o)
    IN  loopBody(n, Len(n.loops), 0)

\* a call of zoomStationsLoop() run up to its first await, in a new frame
zoomStationsLoop(g) ==
    LET o == IF Len(g.stationOrder) = 0 THEN rebuildStationOrder(g) ELSE g
        n == newFrame(o)
    IN  loopHead(n, Len(n.loops), 0)

\* variant: the hold at close zoom left out
resume_skipHold(g, l) ==
    LET f == g.loops[l] IN
    CASE f.pc = "poll" -> loopHead(g, l, f.idx)
      [] f.pc = "fly1" ->
            IF ~g.simRunning THEN return(g, l)
            ELSE flyToAsync(g, l, "fly2", f.target, ZOOM_CLOSE, FLY_DUR_CLOSE)
      [] f.pc = "fly2" ->
            IF ~g.simRunning THEN return(g, l)
            ELSE flyToAsync(g, l, "fly3", f.target, ZOOM_BASE, FLY_DUR_BASE)
      [] f.pc = "pauseClose" ->
            IF ~g.simRunning THEN return(g, l)
            ELSE flyToAsync(g, l, "fly3", f.target, ZOOM_BASE, FLY_DUR_BASE)
      [] f.pc = "fly3" ->
            IF ~g.simRunning THEN return(g, l)
            ELSE sleep(g, l, "pauseBetween", f.idx, PAUSE_BETWEEN_MS)
      [] f.pc = "pauseBetween" -> loopHead(g, l, f.idx + 1)
      [] OTHER -> g

\* variant: no test of simRunning after the first fly step
resume_noCheck(g, l) ==
    LET f == g.loops[l] IN
    CASE f.pc = "poll" -> loopHead(g, l, f.idx)
      [] f.pc = "fly1" ->
            flyToAsync(g, l, "fly2", f.target, ZOOM_CLOSE, FLY_DUR_CLOSE)
      [] f.pc = "fly2" ->
            IF ~g.simRunning THEN return(g, l)
            ELSE sleep(g, l, "pauseClose", f.idx, PAUSE_CLOSE_MS)
      [] f.pc = "pauseClose" ->
            IF ~g.simRunning THEN return(g, l)
            ELSE flyToAsync(g, l, "fly3", f.target, ZOOM_BASE, FLY_DUR_BASE)
      [] f.pc = "fly3" ->
            IF ~g.simRunning THEN return(g, l)
            ELSE sleep(g, l, "pauseBetween", f.idx, PAUSE_BETWEEN_MS)
      [] f.pc = "pauseBetween" -> loopHead(g, l, f.idx + 1)
      [] OTHER -> g

\* variant: idx++ left out after the between-stations pause
resume_noAdvance(g, l) ==
    LET f == g.loops[l] IN
    CASE f.pc = "poll" -> loopHead(g, l, f.idx)
      [] f.pc = "fly1" ->
            IF ~g.simRunning THEN return(g, l)
            ELSE flyToAsync(g, l, "fly2", f.target, ZOOM_CLOSE, FLY_DUR_CLOSE)
      [] f.pc = "fly2" ->
            IF ~g.simRunning THEN return(g, l)
            ELSE sleep(g, l, "pauseClose", f.idx, PAUSE_CLOSE_MS)
      [] f.pc = "pauseClose" ->
            IF ~g.simRunning THEN return(g, l)
            ELSE flyToAsync(g, l, "fly3", f.target, ZOOM_BASE, FLY_DUR_BASE)
      [] f.pc = "fly3" ->
            IF ~g.simRunning THEN return(g, l)
            ELSE sleep(g, l, "pauseBetween", f.idx, PAUSE_BETWEEN_MS)
      [] f.pc = "pauseBetween" -> loopHead(g, l, f.idx)
      [] OTHER -> g

\* the continuation of frame l after the await it is suspended at
resume(g, l) ==
    LET f == g.loops[l] IN
    CASE f.pc = "poll" -> loopHead(g, l, f.idx)
      [] f.pc = "fly1" ->
            IF ~g.simRunning THEN return(g, l)
            ELSE flyToAsync(g, l, "fly2", f.target, ZOOM_CLOSE, FLY_DUR_CLOSE)
      [] f.pc = "fly2" ->
            IF ~g.simRunning THEN return(g, l)
            ELSE sleep(g, l, "pauseClose", f.idx, PAUSE_CLOSE_MS)
      [] f.pc = "pauseClose" ->
            IF ~g.simRunning THEN return(g, l)
            ELSE flyToAsync(g, l, "fly3", f.target, ZOOM_BASE, FLY_DUR_BASE)
      [] f.pc = "fly3" ->
            IF ~g.simRunning THEN return(g, l)
            ELSE sleep(g, l, "pauseBetween", f.idx, PAUSE_BETWEEN_MS)
      [] f.pc = "pauseBetween" -> loopHead(g, l, f.idx + 1)
      [] OTHER -> g

RECURSIVE resumeAll(_, _)
resumeAll(g, ls) ==
    IF ls = <<>> THEN g ELSE resumeAll(resume(g, Head(ls)), Tail(ls))

\* variant: onEnd without map.off, the listeners stay registered
onMoveEnd_keepListeners(g) == resumeAll(g, g.listeners)

\* map fires 'moveend': every registered onEnd runs (map.off, resolve), then
\* the continuations of the resolved promises run in the same order
onMoveEnd(g) == resumeAll([g EXCEPT !.listeners = <<>>], g.listeners)

-----------------------------------------------------------------------------
(* Ring cycle *)

Max(S) == CHOOSE x \in S : \A y \in S : y <= x

\* setInterval returns a fresh positive handle.  A live timer carries its
\* period, the idx of its callback's closure and, as history, the number n
\* of times it has fired.  Handles matter only as what clearInterval is
\* given, so the smallest handle above the live ones stands for a fresh one.
setInterval(g, idx, ms) ==
    LET h == Max(DOMAIN g.intervals \cup {0}) + 1
    IN  [g EXCEPT !.intervals = [k \in DOMAIN @ \cup {h} |->
                                    IF k = h
                                    THEN [idx |-> idx, ms |-> ms, n |-> 0]
                                    ELSE @[k]],
                  !.ringInterval = h]

clearInterval(g, h) ==
    [g EXCEPT !.intervals = [k \in DOMAIN @ \ {h} |-> @[k]],
              !.cancelled = @ + Cardinality(DOMAIN g.intervals \cap {h})]

\* variant: startRingCycle without clearing the timer it replaces
startRingCycle_noClear(g) == setInterval(clearCoverage(g), 1, RING_STEP_MS)

startRingCycle(g) ==
    LET c == clearCoverage(g)
        d == IF c.ringInterval # null THEN clearInterval(c, c.ringInterval)
             ELSE c
    IN  setInterval(d, 1, RING_STEP_MS)

\* variant: stopRingCycle also clears the ring layer
stopRingCycle_clearsRings(g) ==
    LET c == IF g.ringInterval # null THEN clearInterval(g, g.ringInterval)
             ELSE g
    IN  clearCoverage([c EXCEPT !.ringInterval = null])

stopRingCycle(g) ==
    LET c == IF g.ringInterval # null THEN clearInterval(g, g.ringInterval)
             ELSE g
    IN  [c EXCEPT !.ringInterval = null]

\* variant: the index wraps to 0 instead of 1
ringTick_wrapToZero(g, h) ==
    LET idx == g.intervals[h].idx
        d == drawSingleRing(g, StepKm(idx))
        nxt == IF idx + 1 >= Len(coverageSteps) THEN 0 ELSE idx + 1
    IN  [d EXCEPT !.intervals[h] = [idx |-> nxt, ms |-> @.ms, n |-> @.n + 1]]

\* the callback of the interval timer h
ringTick(g, h) ==
    LET idx == g.intervals[h].idx
        d == drawSingleRing(g, StepKm(idx))
        nxt == IF idx + 1 >= Len(coverageSteps) THEN 1 ELSE idx + 1
    IN  [d EXCEPT !.intervals[h] = [idx |-> nxt, ms |-> @.ms, n |-> @.n + 1]]

-----------------------------------------------------------------------------
(* Simulation control and the button *)

startSimulation(g) ==
    IF g.simRunning THEN g
    ELSE LET r == startRingCycle([g EXCEPT !.simRunning = TRUE])
         IN  zoomStationsLoop(r)

\* variant: stopSimulation lowers the flag and leaves the ring cycle running
stopSimulation_keepsCycle(g) == [g EXCEPT !.simRunning = FALSE]

stopSimulation(g) == stopRingCycle([g EXCEPT !.simRunning = FALSE])

\* variant: the wrap one state early
nextCoverageState_offByOne(s) == IF s + 1 > 7 THEN 0 ELSE s + 1

nextCoverageState(s) == IF s + 1 > 8 THEN 0 ELSE s + 1

\* the click listener of coverageBtn
onCoverageClick(g) ==
    LET s == nextCoverageState(g.coverageState)
        t == stopSimulation([g EXCEPT !.coverageState = s])
    IN  IF s = 0 THEN clearCoverage(t)
        ELSE IF s >= 1 /\ s <= 7 THEN drawSingleRing(t, StepKm(s))
        ELSE IF s = 8 THEN startSimulation(t)
        ELSE t

-----------------------------------------------------------------------------
(* Station load.  A parsed row carries its latitude and longitude fields   *)
(* as <<v>> when they are numbers and as <<>> when they are anything else. *)

isNumber(x) == Len(x) = 1

RECURSIVE pushSites(_, _)
pushSites(stns, data) ==
    IF data = <<>> THEN stns
    ELSE LET site == Head(data) IN
         IF ~isNumber(site.lat) \/ ~isNumber(site.lon)
         THEN pushSites(stns, Tail(data))
         ELSE pushSites(Append(stns, [lat |-> site.lat[1], lon |-> site.lon[1]]),
                        Tail(data))

\* variant: the complete callback without its call of rebuildStationOrder
onComplete_noRebuild(g, data) ==
    LET p == [g EXCEPT !.stations = pushSites(@, data)]
    IN  drawSingleRing(p, StepKm(7))

\* Papa.parse's complete callback
onComplete(g, data) ==
    LET p == [g EXCEPT !.stations = pushSites(@, data)]
    IN  drawSingleRing(rebuildStationOrder(p), StepKm(7))

-----------------------------------------------------------------------------
(* The measuring tool.  Its handlers are operators over a record m of its  *)
(* globals, of the layers it has added to the map and of the open popup.   *)
(* A layer is a record; its id tells apart two layers of the same shape.   *)
(* The styling of the button and of the cursor is left out.                *)

measureVars == <<measuring, measurePoints, measureLine, measureMarkers,
                 mapLayers, popup>>

MeasureGlobals == [measuring |-> measuring, measurePoints |-> measurePoints,
                   measureLine |-> measureLine,
                   measureMarkers |-> measureMarkers,
                   mapLayers |-> mapLayers, popup |-> popup]

\* L.circleMarker(latlng, ...) and L.polyline(latlngs, ...)
circleMarker(latlng, id) ==
    [kind |-> "circleMarker", id |-> id, latlngs |-> <<latlng>>]
polyline(latlngs, id) ==
    [kind |-> "polyline", id |-> id, latlngs |-> latlngs]

\* layer.addTo(map) and map.removeLayer(layer)
addTo(m, layer) == [m EXCEPT !.mapLayers = @ \cup {layer}]
removeLayer(m, layer) == [m EXCEPT !.mapLayers = @ \ {layer}]

\* map.distance(a, b) in metres, on a grid whose unit is one kilometre
Abs(x) == IF x < 0 THEN -x ELSE x
distance(a, b) == 1000 * (Abs(a[1] - b[1]) + Abs(a[2] - b[2]))

\* the for loop that sums the legs
RECURSIVE totalDistance(_, _)
totalDistance(pts, i) ==
    IF i >= Len(pts) THEN 0
    ELSE distance(pts[i], pts[i + 1]) + totalDistance(pts, i + 1)

\* measureMarkers.forEach(m => map.removeLayer(m))
RECURSIVE removeMarkers(_, _)
removeMarkers(m, i) ==
    IF i > Len(m.measureMarkers) THEN m
    ELSE removeMarkers(removeLayer(m, m.measureMarkers[i]), i + 1)

\* variant: switching off forgets the markers without taking them off the
\* map
onMeasureBtnClick_leavesMarkers(m) ==
    LET t == [m EXCEPT !.measuring = ~@] IN
    IF ~t.measuring
    THEN LET p == [t EXCEPT !.measurePoints = <<>>]
             l == IF p.measureLine # <<>>
                  THEN [removeLayer(p, p.measureLine[1])
                           EXCEPT !.measureLine = <<>>]
                  ELSE p
         IN  [l EXCEPT !.measureMarkers = <<>>, !.popup = <<>>]
    ELSE t

\* the click handler of measureBtn
onMeasureBtnClick(m) ==
    LET t == [m EXCEPT !.measuring = ~@] IN
    IF ~t.measuring
    THEN LET p == [t EXCEPT !.measurePoints = <<>>]
             l == IF p.measureLine # <<>>
                  THEN [removeLayer(p, p.measureLine[1])
                           EXCEPT !.measureLine = <<>>]
                  ELSE p
             r == removeMarkers(l, 1)
         IN  [r EXCEPT !.measureMarkers = <<>>, !.popup = <<>>]
    ELSE t

\* the map's click handler
onMapClick(m, latlng) ==
    IF ~m.measuring THEN m
    ELSE LET p == [m EXCEPT !.measurePoints = Append(@, latlng)]
             marker == circleMarker(latlng, Len(p.measureMarkers) + 1)
             k == [addTo(p, marker)
                      EXCEPT !.measureMarkers = Append(@, marker)]
         IN  IF Len(k.measurePoints) > 1
             THEN LET r == IF k.measureLine # <<>>
                           THEN removeLayer(k, k.measureLine[1])
                           ELSE k
                      line == polyline(r.measurePoints, Len(r.measurePoints))
                      n == [addTo(r, line) EXCEPT !.measureLine = <<line>>]
                      total == totalDistance(n.measurePoints, 1) \div 1000
                  IN  [n EXCEPT !.popup =
                          <<[latlng |->
                                n.measurePoints[Len(n.measurePoints)],
                             km |-> total]>>]
             ELSE k

\* the document's keydown handler
onKeyDown(m, key) ==
    IF key = "Escape" /\ m.measuring THEN onMeasureBtnClick(m) ELSE m

-----------------------------------------------------------------------------
(* State machine *)

\* the states of the coverage button: 0, one per ring radius, simulation
NumStates == Len(coverageSteps) + 1

Row(lat, lon) == [lat |-> <<lat>>, lon |-> <<lon>>]
BadRow == [lat |-> <<>>, lon |-> <<>>]

\* parse results of sites.csv the load may deliver
CsvInputs == { <<Row(-10, 115), BadRow, Row(20, 116)>> }

InitMeasure ==
    /\ measuring = FALSE
    /\ measurePoints = <<>>
    /\ measureLine = <<>>
    /\ measureMarkers = <<>>
    /\ mapLayers = {}
    /\ popup = <<>>

Init ==
    /\ InitMeasure
    /\ coverageState = 7
    /\ stations = <<>>
    /\ stationOrder = <<>>
    /\ ringLayerGroup = <<>>
    /\ ringInterval = null
    /\ intervals = <<>>
    /\ simRunning = FALSE
    /\ loops = <<>>
    /\ listeners = <<>>
    /\ load = "pending"
    /\ hist = <<>>
    /\ ev = [op |-> "init", fly |-> <<>>, draw |-> <<>>, removed |-> 0,
            cancelled |-> 0]

\* the frames of the calls that have returned are dropped, and the
\* listeners name the frames that remain by their new positions
Compact(g) ==
    LET live(f) == f.pc # "returned"
        rank(l) == Cardinality({k \in 1..l : live(g.loops[k])})
    IN  [g EXCEPT !.loops = SelectSeq(@, live),
                  !.listeners = [k \in 1..Len(@) |-> rank(@[k])]]

\* the globals after a macrotask, and what it called
Assign(g, op) ==
    /\ coverageState' = g.coverageState
    /\ stations' = g.stations
    /\ stationOrder' = g.stationOrder
    /\ ringLayerGroup' = g.ringLayerGroup
    /\ ringInterval' = g.ringInterval
    /\ intervals' = g.intervals
    /\ simRunning' = g.simRunning
    /\ loops' = g.loops
    /\ listeners' = g.listeners
    /\ ev' = [op |-> op, fly |-> g.fly, draw |-> g.draw,
              removed |-> g.removed, cancelled |-> g.cancelled]
    /\ UNCHANGED measureVars

\* (r and c are bound to values, so that the handler and Compact are
\* computed once)
Commit(g, op) == \E r \in {g} : \E c \in {Compact(r)} : Assign(c, op)

\* the last NumStates values of coverageState a click started from
Remember(h, s) ==
    LET a == Append(h, s)
    IN  IF Len(a) > NumStates THEN Tail(a) ELSE a

\* the user clicks the coverage button
Click ==
    /\ nextCoverageState(coverageState) = 8 =>
           Cardinality(Alive(loops)) < MaxLoops
    /\ Commit(onCoverageClick(Globals), "click")
    /\ hist' = Remember(hist, coverageState)
    /\ UNCHANGED load

\* the interval timer h fires
Tick(h) ==
    /\ h \in DOMAIN intervals
    /\ intervals[h].n < MaxTicks
    /\ Commit(ringTick(Globals, h), "tick")
    /\ UNCHANGED <<load, hist>>

\* the map fires 'moveend' while a tour loop listens
MoveEnd ==
    /\ listeners # <<>>
    /\ Commit(onMoveEnd(Globals), "moveend")
    /\ UNCHANGED <<load, hist>>

\* the setTimeout of the sleep that frame l awaits fires
Timeout(l) ==
    /\ l \in DOMAIN loops
    /\ loops[l].pc \in SleepPcs
    /\ (loops[l].pc = "pauseBetween" /\ simRunning) => loops[l].idx < MaxIdx
    /\ Commit(resume(Globals, l), "timeout")
    /\ UNCHANGED <<load, hist>>

\* sites.csv is fetched and parsed
LoadComplete(data) ==
    /\ load = "pending"
    /\ load' = "done"
    /\ Commit(onComplete(Globals, data), "complete")
    /\ UNCHANGED hist

\* the fetch of sites.csv is rejected: the catch handler logs the error
LoadFailed ==
    /\ load = "pending"
    /\ load' = "failed"
    /\ Commit(Globals, "loadError")
    /\ UNCHANGED hist

Next ==
    \/ Click
    \/ \E h \in DOMAIN intervals : Tick(h)
    \/ MoveEnd
    \/ \E l \in DOMAIN loops : Timeout(l)
    \/ \E data \in CsvInputs : LoadComplete(data)
    \/ LoadFailed

Spec == Init /\ [][Next]_vars

-----------------------------------------------------------------------------
(* The program, with zoomStationsLoop also called directly                 *)

CallZoomStationsLoop ==
    /\ Cardinality(Alive(loops)) < MaxLoops
    /\ Commit(zoomStationsLoop(Globals), "zoomStationsLoop")
    /\ UNCHANGED <<load, hist>>

NextLoop ==
    \/ Click
    \/ \E h \in DOMAIN intervals : Tick(h)
    \/ MoveEnd
    \/ \E l \in DOMAIN loops : Timeout(l)
    \/ \E data \in CsvInputs : LoadComplete(data)
    \/ LoadFailed
    \/ CallZoomStationsLoop

SpecLoop == Init /\ [][NextLoop]_vars

-----------------------------------------------------------------------------
(* The program under fair scheduling: the browser fires every timer that   *)
(* stays pending, and the map fires 'moveend' while a flight's listener    *)
(* stays registered.  Clicks, ticks and the load are not forced.           *)
(*                                                                         *)
(* A tour loop must be able to run for ever here, so its counter cannot    *)
(* be capped: idx is kept modulo the length of the station order instead.  *)
(* The loop reads idx only in idx % stationOrder.length, and the order     *)
(* does not change once it is non-empty, so the loop behaves the same.     *)

modOrder(g) ==
    IF g.stationOrder = <<>> THEN g
    ELSE [g EXCEPT !.loops =
             [l \in DOMAIN @ |->
                 IF @[l].pc = "returned" THEN @[l]
                 ELSE [@[l] EXCEPT !.idx = @ % Len(g.stationOrder)]]]

\* the setTimeout of the sleep that frame l awaits fires
TimeoutLive(l) ==
    /\ l \in DOMAIN loops
    /\ loops[l].pc \in SleepPcs
    /\ \E r \in {resume(Globals, l)} : Commit(modOrder(r), "timeout")
    /\ UNCHANGED <<load, hist>>

NextLive ==
    \/ Click
    \/ \E h \in DOMAIN intervals : Tick(h)
    \/ MoveEnd
    \/ \E l \in DOMAIN loops : TimeoutLive(l)
    \/ \E data \in CsvInputs : LoadComplete(data)
    \/ LoadFailed

Fairness ==
    /\ WF_vars(MoveEnd)
    /\ \A l \in 1..MaxLoops : WF_vars(TimeoutLive(l))

SpecLive == Init /\ [][NextLive]_vars /\ Fairness

-----------------------------------------------------------------------------
(* The measuring tool on its own: it shares no variable with the coverage  *)
(* button, the ring cycle, the tour loop or the load                       *)

\* where the user clicks the map, and the keys pressed
ClickPoints == {<<0, 0>>, <<0, 1>>, <<2, 1>>}
Keys == {"Escape", "m"}

\* the globals of the measuring tool after a macrotask
AssignMeasure(m, op) ==
    /\ measuring' = m.measuring
    /\ measurePoints' = m.measurePoints
    /\ measureLine' = m.measureLine
    /\ measureMarkers' = m.measureMarkers
    /\ mapLayers' = m.mapLayers
    /\ popup' = m.popup
    /\ ev' = [op |-> op, fly |-> <<>>, draw |-> <<>>, removed |-> 0,
              cancelled |-> 0]
    /\ UNCHANGED <<coverageState, stations, stationOrder, ringLayerGroup,
                   ringInterval, intervals, simRunning, loops, listeners,
                   load, hist>>

\* the user clicks the measure button
MeasureBtnClick == AssignMeasure(onMeasureBtnClick(MeasureGlobals), "measureBtn")

\* the user clicks the map
MapClick(latlng) ==
    /\ measuring => Len(measurePoints) < MaxPoints
    /\ AssignMeasure(onMapClick(MeasureGlobals, latlng), "mapClick")

\* the user presses a key
KeyDown(key) == AssignMeasure(onKeyDown(MeasureGlobals, key), "keydown")

NextMeasure ==
    \/ MeasureBtnClick
    \/ \E latlng \in ClickPoints : MapClick(latlng)
    \/ \E key \in Keys : KeyDown(key)

SpecMeasure == Init /\ [][NextMeasure]_vars

-----------------------------------------------------------------------------
(* The functions of the ring layer, of the ring cycle and of the station   *)
(* order, called directly on station lists drawn from a bounded set        *)

Lats == {-10, 5, 20}
Lons == {115, 116}
Sites == [lat : Lats, lon : Lons]
StationLists == UNION {[1..n -> Sites] : n \in 0..MaxStations}
RingKms == {coverageSteps[k] : k \in 2..Len(coverageSteps)}

InitPure ==
    /\ InitMeasure
    /\ stations \in StationLists
    /\ coverageState = 7
    /\ stationOrder = <<>>
    /\ ringLayerGroup = <<>>
    /\ ringInterval = null
    /\ intervals = <<>>
    /\ simRunning = FALSE
    /\ loops = <<>>
    /\ listeners = <<>>
    /\ load = "done"
    /\ hist = <<>>
    /\ ev = [op |-> "init", fly |-> <<>>, draw |-> <<>>, removed |-> 0,
            cancelled |-> 0]

CallRebuildStationOrder ==
    /\ Commit(rebuildStationOrder(Globals), "rebuildStationOrder")
    /\ UNCHANGED <<load, hist>>

CallDrawSingleRing(km) ==
    /\ Commit(drawSingleRing(Globals, km), "drawSingleRing")
    /\ UNCHANGED <<load, hist>>

CallClearCoverage ==
    /\ Commit(clearCoverage(Globals), "clearCoverage")
    /\ UNCHANGED <<load, hist>>

CallStartRingCycle ==
    /\ Commit(startRingCycle(Globals), "startRingCycle")
    /\ UNCHANGED <<load, hist>>

CallStopRingCycle ==
    /\ Commit(stopRingCycle(Globals), "stopRingCycle")
    /\ UNCHANGED <<load, hist>>

NextPure ==
    \/ CallRebuildStationOrder
    \/ \E km \in RingKms : CallDrawSingleRing(km)
    \/ CallClearCoverage
    \/ CallStartRingCycle
    \/ CallStopRingCycle
    \/ \E h \in DOMAIN intervals : Tick(h)

SpecPure == InitPure /\ [][NextPure]_vars

-----------------------------------------------------------------------------
(* Properties *)

\* the ring layer holds exactly one circle per station, centred on it, all
\* of radius km
RingsAt(km) ==
    /\ Len(ringLayerGroup) = Len(stations)
    /\ \A k \in 1..Len(stations) :
           \E c \in 1..Len(ringLayerGroup) :
               /\ ringLayerGroup[c].lat = stations[k].lat
               /\ ringLayerGroup[c].lon = stations[k].lon
    /\ \A c \in 1..Len(ringLayerGroup) : ringLayerGroup[c].radius = km * 1000
    /\ \A k \in 1..Len(stations) :
           Cardinality({c \in 1..Len(ringLayerGroup) :
                           /\ ringLayerGroup[c].lat = stations[k].lat
                           /\ ringLayerGroup[c].lon = stations[k].lon})
           = Cardinality({j \in 1..Len(stations) :
                           /\ stations[j].lat = stations[k].lat
                           /\ stations[j].lon = stations[k].lon})

\* the radii of a ring cycle, in order
CycleSeq == <<5, 10, 15, 20, 25, 30, 40>>

\* C1: at most one tour loop (a call of zoomStationsLoop that has not
\* returned) is alive at any instant.
C1_AtMostOneTourLoop == Cardinality(Alive(loops)) <= 1

\* C2: whenever coverageState is not 8 (in particular after a click has moved
\* it away from 8) simRunning is false, the timer handle is cleared and no
\* interval timer is live, and the macrotask that led here issued no flyTo
\* and was no ring-cycle tick.
C2_StoppedAwayFrom8 ==
    coverageState # 8 =>
        /\ simRunning = FALSE
        /\ ringInterval = null
        /\ DOMAIN intervals = {}
        /\ ev.fly = <<>>
        /\ ev.op # "tick"

\* C2 witness: away from 8 after leaving 8, a suspended fly step completes
C2_Witness ==
    /\ coverageState # 8
    /\ hist # <<>> /\ hist[Len(hist)] = 8
    /\ ev.op = "moveend"
    /\ Alive(loops) = {}

\* C3: a click takes coverageState from s to (s+1) mod 9, no other macrotask
\* changes it, it stays within 0..8, and the state 9 clicks ago is the current
\* one while the states fewer clicks ago are not.
C3_ClickCycle ==
    /\ [][IF ev'.op = "click"
          THEN coverageState' = (coverageState + 1) % 9
          ELSE coverageState' = coverageState]_vars
    /\ [](/\ coverageState \in 0..8
          /\ Len(hist) >= 9 => hist[Len(hist) - 8] = coverageState
          /\ \A k \in 1..Len(hist) :
                 k > Len(hist) - 8 => hist[k] # coverageState)

\* C3 witness: nine clicks have returned the state to where it was
C3_Witness ==
    /\ ev.op = "click"
    /\ Len(hist) >= 9
    /\ hist[Len(hist) - 8] = coverageState
    /\ coverageState = 3

\* C4: when the station load completes, coverageState is 7.
C4_LoadedIsState7 == ev.op = "complete" => coverageState = 7

\* C5: the ring layer matches coverageState: empty in state 0, one circle
\* per station of radius coverageSteps[k] in state k of 1..7, empty or one
\* circle per station at one radius of the cycle in state 8.
C5_RingsMatchState ==
    /\ coverageState = 0 => ringLayerGroup = <<>>
    /\ coverageState \in 1..7 => RingsAt(coverageSteps[coverageState + 1])
    /\ coverageState = 8 =>
           \/ ringLayerGroup = <<>>
           \/ \E k \in 1..Len(CycleSeq) : RingsAt(CycleSeq[k])

\* C6: the k-th tick (k = 0, 1, ...) of a ring cycle redraws the rings at
\* radius CycleSeq[k mod 7]; n is the number of ticks so far, so k = n - 1.
C6_TickRadius ==
    ev.op = "tick" =>
        /\ ringInterval \in DOMAIN intervals
        /\ LET k == intervals[ringInterval].n - 1
               km == CycleSeq[(k % 7) + 1]
           IN  /\ k >= 0
               /\ ev.draw = <<km>>
               /\ km # 0
               /\ RingsAt(km)

\* C6 witness: the eighth tick of a cycle wraps from 40 km back to 5 km
C6_Witness ==
    /\ ev.op = "tick"
    /\ ringInterval \in DOMAIN intervals
    /\ intervals[ringInterval].n = 8
    /\ ev.draw = <<5>>
    /\ Len(ringLayerGroup) = 2

\* C7: the number of live interval timers is 1 if ringInterval is non-null
\* and 0 otherwise, and the live timer is the one ringInterval names.
C7_SingleTimer ==
    /\ Cardinality(DOMAIN intervals) = (IF ringInterval # null THEN 1 ELSE 0)
    /\ ringInterval # null => ringInterval \in DOMAIN intervals

\* C7 witness: startRingCycle has replaced the timer of a running cycle
C7_Witness ==
    /\ ev.op = "startRingCycle"
    /\ ringInterval # null
    /\ intervals[ringInterval].n = 0
    /\ ev.cancelled = 1

\* C8: a call of zoomStationsLoop made while simRunning is false returns
\* at once: it issues no flyTo, registers no listener and leaves no frame.
C8_NotRunningNoFly ==
    [][(ev'.op = "zoomStationsLoop" /\ ~simRunning) =>
           /\ ev'.fly = <<>>
           /\ listeners' = listeners
           /\ loops' = loops]_vars

\* C8 witness: the loop was called with stations loaded and the flag lowered
C8_Witness ==
    /\ ev.op = "zoomStationsLoop"
    /\ ~simRunning
    /\ stations # <<>>
    /\ stationOrder # <<>>

\* C9: for a non-empty station list rebuildStationOrder leaves in
\* stationOrder a permutation of 0..len(stations)-1 along which the
\* latitudes do not increase; latitudes -10, 20, 5 give <<1, 2, 0>>.
C9_OrderSorted ==
    (ev.op = "rebuildStationOrder" /\ stations # <<>>) =>
        /\ Len(stationOrder) = Len(stations)
        /\ {stationOrder[k] : k \in 1..Len(stationOrder)}
               = 0..(Len(stations) - 1)
        /\ \A k \in 1..(Len(stationOrder) - 1) :
               stations[stationOrder[k] + 1].lat
                   >= stations[stationOrder[k + 1] + 1].lat
        /\ [k \in 1..Len(stations) |-> stations[k].lat] = <<-10, 20, 5>>
               => stationOrder = <<1, 2, 0>>

\* C9 witness: the order of the stations at latitudes -10, 20, 5
C9_Witness ==
    /\ ev.op = "rebuildStationOrder"
    /\ [k \in 1..Len(stations) |-> stations[k].lat] = <<-10, 20, 5>>
    /\ stationOrder = <<1, 2, 0>>

\* C10: after drawSingleRing(r) the ring layer holds exactly one circle per
\* station, centred on it, of radius r km, whatever it held before; with
\* no stations it holds nothing.
C10_DrawSingleRing ==
    ev.draw # <<>> =>
        /\ RingsAt(ev.draw[Len(ev.draw)])
        /\ stations = <<>> => ringLayerGroup = <<>>

\* C10 witness: drawSingleRing(10) has replaced the rings of three stations
C10_Witness ==
    /\ ev.op = "drawSingleRing"
    /\ ev.draw = <<10>>
    /\ ev.removed = 3
    /\ Len(stations) = 3
    /\ Len(ringLayerGroup) = 3

\* C11: between handlers stationOrder is a permutation of the indices
\* 0..len(stations)-1, before, after and without the station load.
C11_OrderIsPermutation ==
    /\ Len(stationOrder) = Len(stations)
    /\ {stationOrder[k] : k \in 1..Len(stationOrder)} = 0..(Len(stations) - 1)

\* C11 witness: the load has completed while a tour loop started before it
\* was polling
C11_Witness ==
    /\ ev.op = "complete"
    /\ loops # <<>>
    /\ Len(stations) = 2
    /\ stationOrder = <<1, 0>>

\* a call of map.flyTo(latlng, zoom) is among those of the macrotask e
HasFly(e, latlng, zoom) ==
    \E c \in 1..Len(e.fly) : e.fly[c].latlng = latlng /\ e.fly[c].zoom = zoom

\* the frame f has stayed as it was or has moved to f2 by the next step of
\* its iteration, on the event that completes the step it was suspended in
StepInOrder(f, f2, e) ==
    LET same == /\ f2.idx = f.idx
                /\ f2.sIndex = f.sIndex
                /\ f2.target = f.target
    IN  \/ f2 = f
        \/ /\ f.pc = "fly1" /\ e.op = "moveend"
           /\ f2.pc = "fly2" /\ same
           /\ HasFly(e, f.target, ZOOM_CLOSE)
        \/ /\ f.pc = "fly2" /\ e.op = "moveend"
           /\ f2.pc = "pauseClose" /\ same
           /\ f2.ms = PAUSE_CLOSE_MS
        \/ /\ f.pc = "pauseClose" /\ e.op = "timeout"
           /\ f2.pc = "fly3" /\ same
           /\ HasFly(e, f.target, ZOOM_BASE)
        \/ /\ f.pc = "fly3" /\ e.op = "moveend"
           /\ f2.pc = "pauseBetween" /\ same
           /\ f2.ms = PAUSE_BETWEEN_MS
        \/ /\ f.pc \in {"pauseBetween", "poll"} /\ e.op = "timeout"
           /\ \/ f2.pc = "poll"
              \/ f2.pc = "fly1" /\ HasFly(e, f2.target, ZOOM_BASE)

\* C12: within an iteration a tour loop goes through flyTo(station, base),
\* flyTo(same station, close), the hold, flyTo(same station, base) and the
\* pause between stations in this order, each started by the event that
\* completes the one before.  (While no frame returns, a frame keeps its
\* place in loops.)
C12_StepsInOrder ==
    [][Len(loops') >= Len(loops) =>
          /\ \A l \in DOMAIN loops : StepInOrder(loops[l], loops'[l], ev')
          /\ \A l \in DOMAIN loops' \ DOMAIN loops :
                 \/ loops'[l].pc = "poll"
                 \/ /\ loops'[l].pc = "fly1"
                    /\ HasFly(ev', loops'[l].target, ZOOM_BASE)]_vars

\* C12 witness: the third fly step of an iteration has completed
C12_Witness ==
    /\ ev.op = "moveend"
    /\ simRunning
    /\ \E l \in DOMAIN loops : loops[l].pc = "pauseBetween"

\* C13: the iteration a tour loop is in with counter idx targets station
\* stationOrder[idx mod len]; idx starts at 0, at a northernmost station,
\* and goes up by one when an iteration has been completed, never otherwise.
C13_VisitsInOrder ==
    /\ [](\A l \in DOMAIN loops :
             loops[l].pc # "poll" =>
                 /\ stationOrder # <<>>
                 /\ loops[l].sIndex =
                        stationOrder[(loops[l].idx % Len(stationOrder)) + 1]
                 /\ loops[l].target =
                        <<stations[loops[l].sIndex + 1].lat,
                          stations[loops[l].sIndex + 1].lon>>
                 /\ loops[l].idx = 0 =>
                        \A k \in 1..Len(stations) :
                            stations[k].lat <= loops[l].target[1])
    /\ [][Len(loops') >= Len(loops) =>
             /\ \A l \in DOMAIN loops :
                    \/ loops'[l].idx = loops[l].idx
                    \/ /\ loops'[l].idx = loops[l].idx + 1
                       /\ loops[l].pc = "pauseBetween"
                       /\ loops'[l].pc = "fly1"
             /\ \A l \in DOMAIN loops' \ DOMAIN loops : loops'[l].idx = 0]_vars

\* C13 witness: after the last station of the order the loop is back at
\* the first
C13_Witness ==
    /\ ev.op = "timeout"
    /\ \E l \in DOMAIN loops :
           /\ loops[l].pc = "fly1"
           /\ loops[l].idx = Len(stationOrder)
           /\ Len(stationOrder) = 2
           /\ loops[l].sIndex = stationOrder[1]

\* the places in loops of the frames suspended in a fly step
InFlyStep(ls) == {l \in DOMAIN ls : ls[l].pc \in FlyPcs}

\* C16: the registered moveend listeners are exactly the tour loops that
\* are suspended in a fly step, one listener each; such a loop moves on
\* only in a moveend macrotask, and a moveend macrotask moves on every one
\* of them.
C16_OneListenerPerFlyStep ==
    /\ [](/\ Len(listeners) = Cardinality(InFlyStep(loops))
          /\ {listeners[k] : k \in 1..Len(listeners)} = InFlyStep(loops))
    /\ [][/\ Len(loops') >= Len(loops) =>
                \A l \in InFlyStep(loops) :
                    IF ev'.op = "moveend"
                    THEN loops'[l].pc # loops[l].pc
                    ELSE loops'[l] = loops[l]
          /\ (Len(loops') < Len(loops) /\ ev'.op # "moveend") =>
                Cardinality(InFlyStep(loops')) =
                    Cardinality(InFlyStep(loops))
          /\ InFlyStep(loops') = {} => listeners' = <<>>]_vars

\* C16 witness: of two loops suspended in fly steps one moveend has taken
\* one into its hold pause and the other into its next fly step
C16_Witness ==
    /\ ev.op = "moveend"
    /\ Len(loops) = 2
    /\ Len(listeners) = 1
    /\ \E l \in DOMAIN loops : loops[l].pc = "pauseClose"

\* C17: while stations is empty the ring layer is empty, no flyTo has been
\* issued and no moveend listener registered, every tour loop is in its
\* 1000 ms poll, and a click still moves coverageState on.
C17_EmptyStoreNoOps ==
    /\ [](stations = <<>> =>
             /\ ringLayerGroup = <<>>
             /\ ev.fly = <<>>
             /\ listeners = <<>>
             /\ \A l \in DOMAIN loops :
                    loops[l].pc = "poll" /\ loops[l].ms = POLL_MS)
    /\ [][(stations' = <<>> /\ ev'.op = "click") =>
             coverageState' = (coverageState + 1) % 9]_vars

\* C17 witness: after a failed load a ring-cycle tick has called
\* drawSingleRing while a tour loop is polling
C17_Witness ==
    /\ load = "failed"
    /\ stations = <<>>
    /\ ev.op = "tick"
    /\ ev.draw # <<>>
    /\ loops # <<>>
    /\ ringLayerGroup = <<>>

\* C18: stopRingCycle leaves ringInterval null and no interval timer live,
\* and leaves the ring layer, coverageState, the stations and their order,
\* and simRunning as they were.
C18_StopRingCycleFrame ==
    [][ev'.op = "stopRingCycle" =>
          /\ ringInterval' = null
          /\ DOMAIN intervals' = {}
          /\ ringLayerGroup' = ringLayerGroup
          /\ coverageState' = coverageState
          /\ stations' = stations
          /\ stationOrder' = stationOrder
          /\ simRunning' = simRunning]_vars

\* C18 witness: stopRingCycle has cancelled a running cycle with rings drawn
C18_Witness ==
    /\ ev.op = "stopRingCycle"
    /\ ev.cancelled = 1
    /\ ringInterval = null
    /\ ringLayerGroup # <<>>

\* C19: between handlers simRunning holds exactly when coverageState is 8,
\* and ringInterval is non-null exactly when simRunning holds.
C19_IndicatorsAgree ==
    /\ simRunning <=> coverageState = 8
    /\ ringInterval # null <=> simRunning

\* C19 witness: in state 8 again after having left it, with the loaded
\* stations
C19_Witness ==
    /\ coverageState = 8
    /\ simRunning
    /\ ringInterval # null
    /\ Len(hist) >= 9
    /\ load = "done"

\* the layers of a kind that the measuring tool has on the map
OnMap(kind) == {layer \in mapLayers : layer.kind = kind}

\* C20: the measuring tool has one marker per point, in the array and on
\* the map; it has a line, the one on the map, exactly when it has at least
\* two points; with measuring off it has no point, no marker and no line;
\* and a map click with measuring off changes nothing of it.
C20_MeasureConsistent ==
    /\ [](/\ Len(measureMarkers) = Len(measurePoints)
          /\ OnMap("circleMarker") =
                 {measureMarkers[k] : k \in 1..Len(measureMarkers)}
          /\ Cardinality(OnMap("circleMarker")) = Len(measurePoints)
          /\ measureLine # <<>> <=> Len(measurePoints) >= 2
          /\ OnMap("polyline") =
                 {measureLine[k] : k \in 1..Len(measureLine)}
          /\ ~measuring =>
                 /\ measurePoints = <<>>
                 /\ measureMarkers = <<>>
                 /\ measureLine = <<>>
                 /\ mapLayers = {})
    /\ [][(ev'.op = "mapClick" /\ ~measuring) =>
             UNCHANGED measureVars]_vars

\* C20 witness: a third point has replaced the line of the first two
C20_Witness ==
    /\ ev.op = "mapClick"
    /\ measuring
    /\ Len(measurePoints) = 3
    /\ measureLine # <<>> /\ Len(measureLine[1].latlngs) = 3
    /\ Cardinality(mapLayers) = 4

\* the coordinates the load may put into stations
Coords == {<<s.lat, s.lon>> : s \in Sites}

\* the last macrotask has called map.flyTo to latlng
FlownTo(latlng) == \E c \in 1..Len(ev.fly) : ev.fly[c].latlng = latlng

IsStation(latlng) ==
    \E k \in 1..Len(stations) : <<stations[k].lat, stations[k].lon>> = latlng

\* C14: under fair scheduling, in a run in which coverageState is 8 from
\* some point on and p is a station from some point on, flyTo is called
\* with p infinitely often.  (`from some point on always A' implies
\* `infinitely often B' is the same as `infinitely often not A or B'.)
C14_EveryStationAgain ==
    \A p \in Coords : []<>(coverageState # 8 \/ ~IsStation(p) \/ FlownTo(p))

\* C14 witness: in state 8 a loop has completed its first iteration and
\* flies to the second station of the order
C14_Witness ==
    /\ coverageState = 8
    /\ ev.op = "timeout"
    /\ Len(stationOrder) = 2
    /\ \E l \in DOMAIN loops :
           /\ loops[l].pc = "fly1"
           /\ loops[l].idx = 1
           /\ loops[l].sIndex = stationOrder[2]
           /\ FlownTo(loops[l].target)

\* C15: under fair scheduling, in a run in which simRunning is false from
\* some point on, from some point on no tour loop is alive; and no
\* macrotask that leaves simRunning false calls flyTo.  (Loops start only
\* when simRunning is raised, so `infinitely often no loop' is `no loop
\* from some point on' in such a run.)
C15_LoopsReturn ==
    /\ []<>(simRunning \/ loops = <<>>)
    /\ [](~simRunning => ev.fly = <<>>)

\* C15 witness: with the flag lowered a pause has ended and the last loop
\* has returned
C15_Witness ==
    /\ ~simRunning
    /\ hist # <<>> /\ hist[Len(hist)] = 8
    /\ ev.op = "timeout"
    /\ loops = <<>>

====
